---------------------------- MODULE Spec2Model ----------------------------
(***************************************************************************)
(* A model of DataPicker (src/src/DataPicker.ts): a labelled wrapper over  *)
(* an untyped key-value object with type-checking getters.                 *)
(*                                                                         *)
(* JavaScript values are records tagged by t.  A JavaScript string is a    *)
(* sequence of one-character strings, so that parsing, quoting and         *)
(* concatenation are computed character by character.  A number is either *)
(* a finite decimal m / 10^e (normalised), NaN or an infinity.  An object  *)
(* is its sequence of <<key, value>> properties in insertion order.        *)
(***************************************************************************)
EXTENDS Integers, Sequences, FiniteSets, TLC

(***************************************************************************)
(* Bounds of the model.                                                    *)
(***************************************************************************)
\* Longest array that is enumerated as a property value.
MaxLen == 2

\* Deepest chain of getObject / getObjectArray steps a caller follows.
MaxDepth == 2

(***************************************************************************)
(* Characters and strings.                                                 *)
(***************************************************************************)
Digits == {"0", "1", "2", "3", "4", "5", "6", "7", "8", "9"}

HexDigits == Digits \cup {"a", "b", "c", "d", "e", "f", "A", "B", "C", "D", "E", "F"}

WhiteSpace == {" ", "\t", "\n", "\r"}

DigitVal(c) ==
    CASE c = "0" -> 0 [] c = "1" -> 1 [] c = "2" -> 2 [] c = "3" -> 3
      [] c = "4" -> 4 [] c = "5" -> 5 [] c = "6" -> 6 [] c = "7" -> 7
      [] c = "8" -> 8 [] c = "9" -> 9
      [] c \in {"a", "A"} -> 10 [] c \in {"b", "B"} -> 11
      [] c \in {"c", "C"} -> 12 [] c \in {"d", "D"} -> 13
      [] c \in {"e", "E"} -> 14 [] c \in {"f", "F"} -> 15

DigitChar(d) ==
    CASE d = 0 -> "0" [] d = 1 -> "1" [] d = 2 -> "2" [] d = 3 -> "3"
      [] d = 4 -> "4" [] d = 5 -> "5" [] d = 6 -> "6" [] d = 7 -> "7"
      [] d = 8 -> "8" [] d = 9 -> "9"

Drop(s, n) == IF n >= Len(s) THEN <<>> ELSE SubSeq(s, n + 1, Len(s))

Take(s, n) == IF n >= Len(s) THEN s ELSE SubSeq(s, 1, n)

StartsWith(s, p) == Len(s) >= Len(p) /\ SubSeq(s, 1, Len(p)) = p

\* String.prototype.includes for a single character.
IncludesChar(s, c) == \E i \in 1..Len(s) : s[i] = c

\* The length of the longest prefix of s made of characters of set.
PrefixLen(s, set) ==
    IF \A i \in 1..Len(s) : s[i] \in set THEN Len(s)
    ELSE (CHOOSE i \in 1..Len(s) :
            s[i] \notin set /\ \A j \in 1..(i - 1) : s[j] \in set) - 1

RECURSIVE Pow(_, _)
Pow(b, n) == IF n = 0 THEN 1 ELSE b * Pow(b, n - 1)

\* The value of the first n digits of ds in the given radix.
RECURSIVE DigitsValueTo(_, _, _)
DigitsValueTo(ds, radix, n) ==
    IF n = 0 THEN 0
    ELSE DigitsValueTo(ds, radix, n - 1) * radix + DigitVal(ds[n])

\* The value of a sequence of digits in the given radix.
DigitsValue(ds, radix) == DigitsValueTo(ds, radix, Len(ds))

\* The decimal digits of a natural number.
RECURSIVE NatToStr(_)
NatToStr(n) ==
    IF n < 10 THEN <<DigitChar(n)>> ELSE NatToStr(n \div 10) \o <<DigitChar(n % 10)>>

\* A natural number in at least w digits, zero-padded on the left.
RECURSIVE Pad(_, _)
Pad(s, w) == IF Len(s) >= w THEN s ELSE Pad(<<"0">> \o s, w)

(***************************************************************************)
(* Numbers.                                                                *)
(***************************************************************************)
NaN == [cls |-> "nan"]

Infinity == [cls |-> "inf", neg |-> FALSE]

NegInfinity == [cls |-> "inf", neg |-> TRUE]

\* m / 10^e with the trailing zeros of the fraction removed.
RECURSIVE Fin(_, _)
Fin(m, e) ==
    IF e > 0 /\ m % 10 = 0 THEN Fin(m \div 10, e - 1)
    ELSE [cls |-> "fin", m |-> m, e |-> e]

\* Number.isFinite on a number.
NumIsFinite(n) == n.cls = "fin"

\* n > 0.
NumPositive(n) ==
    \/ n.cls = "fin" /\ n.m > 0
    \/ n.cls = "inf" /\ ~n.neg

Abs(i) == IF i < 0 THEN -i ELSE i

\* Number::toString for the numbers of the model (no exponent notation).
NumToStr(n) ==
    CASE n.cls = "nan" -> <<"N", "a", "N">>
      [] n.cls = "inf" ->
            (IF n.neg THEN <<"-">> ELSE <<>>)
                \o <<"I", "n", "f", "i", "n", "i", "t", "y">>
      [] n.cls = "fin" ->
            LET a == Abs(n.m)
                p == Pow(10, n.e)
            IN  (IF n.m < 0 THEN <<"-">> ELSE <<>>)
                    \o NatToStr(a \div p)
                    \o (IF n.e = 0 THEN <<>>
                        ELSE <<".">> \o Pad(NatToStr(a % p), n.e))

(***************************************************************************)
(* Number.parseInt(string) with no radix.  (A bound variable x \in {e}     *)
(* names the value of e, computed once.)                                   *)
(***************************************************************************)
ParseInt(s) ==
    LET digits(neg, radix, ds) ==
            IF ds = <<>> THEN NaN
            ELSE Fin((IF neg THEN -1 ELSE 1) * DigitsValue(ds, radix), 0)
        unsigned(neg, u) ==
            IF StartsWith(u, <<"0", "x">>) \/ StartsWith(u, <<"0", "X">>)
            THEN CHOOSE n \in {digits(neg, 16, ds) :
                        ds \in {Take(Drop(u, 2), PrefixLen(Drop(u, 2), HexDigits))}} : TRUE
            ELSE CHOOSE n \in {digits(neg, 10, ds) :
                        ds \in {Take(u, PrefixLen(u, Digits))}} : TRUE
        signed(t) ==
            CHOOSE n \in {unsigned(t # <<>> /\ Head(t) = "-", u) :
                    u \in {IF t # <<>> /\ Head(t) \in {"+", "-"} THEN Tail(t) ELSE t}} : TRUE
    IN  CHOOSE n \in {signed(t) : t \in {Drop(s, PrefixLen(s, WhiteSpace))}} : TRUE

(***************************************************************************)
(* Number.parseFloat(string): the longest prefix that is a decimal         *)
(* literal (StrDecimalLiteral), after leading white space.                 *)
(***************************************************************************)
ParseFloat(s) ==
    LET \* mantissa digits int and frac, and what follows them
        scaled(neg, int, frac, b) ==
            LET c == IF b # <<>> /\ Head(b) \in {"e", "E"} THEN Tail(b) ELSE <<>>
                eneg == c # <<>> /\ Head(c) = "-"
                d == IF c # <<>> /\ Head(c) \in {"+", "-"} THEN Tail(c) ELSE c
                x == (IF eneg THEN -1 ELSE 1) * DigitsValue(Take(d, PrefixLen(d, Digits)), 10)
                m == (IF neg THEN -1 ELSE 1) * DigitsValue(int \o frac, 10)
                e == Len(frac) - x
            IN  IF int = <<>> /\ frac = <<>> THEN NaN
                ELSE IF e >= 0 THEN Fin(m, e)
                ELSE Fin(m * Pow(10, -e), 0)
        \* the integer digits int, and what follows them
        fraction(neg, int, a) ==
            IF a # <<>> /\ Head(a) = "."
            THEN CHOOSE n \in {scaled(neg, int, Take(Tail(a), nf), Drop(Tail(a), nf)) :
                        nf \in {PrefixLen(Tail(a), Digits)}} : TRUE
            ELSE scaled(neg, int, <<>>, a)
        unsigned(neg, u) ==
            IF StartsWith(u, <<"I", "n", "f", "i", "n", "i", "t", "y">>)
            THEN (IF neg THEN NegInfinity ELSE Infinity)
            ELSE CHOOSE n \in {fraction(neg, Take(u, ni), Drop(u, ni)) :
                        ni \in {PrefixLen(u, Digits)}} : TRUE
        signed(t) ==
            CHOOSE n \in {unsigned(t # <<>> /\ Head(t) = "-", u) :
                    u \in {IF t # <<>> /\ Head(t) \in {"+", "-"} THEN Tail(t) ELSE t}} : TRUE
    IN  CHOOSE n \in {signed(t) : t \in {Drop(s, PrefixLen(s, WhiteSpace))}} : TRUE

(***************************************************************************)
(* Dates: a time value is an integral number of milliseconds since the     *)
(* epoch, or NaN (an invalid date).                                        *)
(***************************************************************************)
MsPerDay == 24 * 60 * 60 * 1000

IsLeap(y) == (y % 4 = 0 /\ y % 100 # 0) \/ y % 400 = 0

DaysInMonth(y, m) ==
    IF m = 2 THEN (IF IsLeap(y) THEN 29 ELSE 28)
    ELSE IF m \in {4, 6, 9, 11} THEN 30 ELSE 31

\* The day number (days since 1970-01-01) of a calendar date: MakeDay.
DaysFromCivil(y, m, d) ==
    LET yy == IF m <= 2 THEN y - 1 ELSE y
        era == yy \div 400
        yoe == yy - era * 400
        mp == IF m > 2 THEN m - 3 ELSE m + 9
        doy == (153 * mp + 2) \div 5 + d - 1
        doe == yoe * 365 + yoe \div 4 - yoe \div 100 + doy
    IN  era * 146097 + doe - 719468

\* The calendar date <<year, month, day>> of a day number.
CivilFromDays(days) ==
    LET z == days + 719468
        era == z \div 146097
        doe == z - era * 146097
        yoe == (doe - doe \div 1460 + doe \div 36524 - doe \div 146096) \div 365
        doy == doe - (365 * yoe + yoe \div 4 - yoe \div 100)
        mp == (5 * doy + 2) \div 153
        d == doy - (153 * mp + 2) \div 5 + 1
        m == IF mp < 10 THEN mp + 3 ELSE mp - 9
        y == yoe + era * 400
    IN  <<IF m <= 2 THEN y + 1 ELSE y, m, d>>

AllIn(s, set) == \A i \in 1..Len(s) : s[i] \in set

\* A field of exactly w digits at position i of s.
IsField(s, i, w) == Len(s) >= i + w - 1 /\ AllIn(SubSeq(s, i, i + w - 1), Digits)

Field(s, i, w) == DigitsValue(SubSeq(s, i, i + w - 1), 10)

(***************************************************************************)
(* Date.parse(string).  The ECMAScript date-time string format in UTC      *)
(* (YYYY[-MM[-DD]] alone, or followed by THH:mm[:ss[.sss]]Z) is computed.  *)
(* A string with no digit is unrecognisable: NaN.  For any other string    *)
(* the result is implementation-defined; engine is what the host's parser  *)
(* answers for those.                                                      *)
(***************************************************************************)
DateParse(s, engine) ==
    LET hasMonth == IsField(s, 1, 4) /\ Len(s) >= 5 /\ s[5] = "-" /\ IsField(s, 6, 2)
        hasDay == hasMonth /\ Len(s) >= 8 /\ s[8] = "-" /\ IsField(s, 9, 2)
        dateLen == IF hasDay THEN 10 ELSE IF hasMonth THEN 7 ELSE 4
        y == Field(s, 1, 4)
        mo == IF hasMonth THEN Field(s, 6, 2) ELSE 1
        d == IF hasDay THEN Field(s, 9, 2) ELSE 1
        r == Drop(s, dateLen)
        hasHm == /\ Len(r) >= 6 /\ r[1] = "T" /\ IsField(r, 2, 2)
                 /\ r[4] = ":" /\ IsField(r, 5, 2)
        hasSec == hasHm /\ Len(r) >= 9 /\ r[7] = ":" /\ IsField(r, 8, 2)
        hasMs == hasSec /\ Len(r) >= 13 /\ r[10] = "." /\ IsField(r, 11, 3)
        timeLen == IF hasMs THEN 13 ELSE IF hasSec THEN 9 ELSE IF hasHm THEN 6 ELSE 0
        h == IF hasHm THEN Field(r, 2, 2) ELSE 0
        mi == IF hasHm THEN Field(r, 5, 2) ELSE 0
        sec == IF hasSec THEN Field(r, 8, 2) ELSE 0
        ms == IF hasMs THEN Field(r, 11, 3) ELSE 0
        z == Drop(r, timeLen)
        isoUtc == /\ IsField(s, 1, 4)
                  /\ \/ r = <<>>
                     \/ hasHm /\ z = <<"Z">>
        inRange == /\ mo \in 1..12
                   /\ d \in 1..DaysInMonth(y, mo)
                   /\ \/ h \in 0..23 /\ mi \in 0..59 /\ sec \in 0..59
                      \/ h = 24 /\ mi = 0 /\ sec = 0 /\ ms = 0
    IN  IF isoUtc
        THEN IF inRange
             THEN Fin(DaysFromCivil(y, mo, d) * MsPerDay
                        + ((h * 60 + mi) * 60 + sec) * 1000 + ms, 0)
             ELSE NaN
        ELSE IF \A i \in 1..Len(s) : s[i] \notin Digits THEN NaN
        ELSE engine

\* The time value of new Date(number): the number truncated to an integer
\* (TimeClip; every finite number of the model is inside the date range).
TimeClip(n) ==
    IF n.cls # "fin" THEN NaN
    ELSE Fin((IF n.m < 0 THEN -1 ELSE 1) * (Abs(n.m) \div Pow(10, n.e)), 0)

\* Date.prototype.toISOString of a valid time value.
ToISOString(t) ==
    LET days == t.m \div MsPerDay
        rest == t.m % MsPerDay
        ymd == CivilFromDays(days)
        two(n) == Pad(NatToStr(n), 2)
    IN  Pad(NatToStr(ymd[1]), 4) \o <<"-">> \o two(ymd[2]) \o <<"-">> \o two(ymd[3])
            \o <<"T">> \o two(rest \div (60 * 60 * 1000))
            \o <<":">> \o two((rest \div (60 * 1000)) % 60)
            \o <<":">> \o two((rest \div 1000) % 60)
            \o <<".">> \o Pad(NatToStr(rest % 1000), 3) \o <<"Z">>

(***************************************************************************)
(* JavaScript values.                                                      *)
(***************************************************************************)
Undefined == [t |-> "undefined"]

Null == [t |-> "null"]

Bool(b) == [t |-> "boolean", v |-> b]

Num(n) == [t |-> "number", v |-> n]

Str(s) == [t |-> "string", v |-> s]

\* A Date object with the given time value.
DateV(n) == [t |-> "date", v |-> n]

\* An array of the given elements.
Arr(items) == [t |-> "array", v |-> items]

\* A plain object with the given <<key, value>> properties.
Obj(props) == [t |-> "object", v |-> props]

\* The typeof operator.
TypeOf(v) ==
    CASE v.t = "undefined" -> "undefined"
      [] v.t = "boolean" -> "boolean"
      [] v.t = "number" -> "number"
      [] v.t = "string" -> "string"
      [] OTHER -> "object"

\* typeof as the text a template literal interpolates.
TypeOfStr(v) ==
    CASE TypeOf(v) = "undefined" -> <<"u", "n", "d", "e", "f", "i", "n", "e", "d">>
      [] TypeOf(v) = "boolean" -> <<"b", "o", "o", "l", "e", "a", "n">>
      [] TypeOf(v) = "number" -> <<"n", "u", "m", "b", "e", "r">>
      [] TypeOf(v) = "string" -> <<"s", "t", "r", "i", "n", "g">>
      [] OTHER -> <<"o", "b", "j", "e", "c", "t">>

\* ToBoolean: the result of !!v.
Truthy(v) ==
    CASE v.t \in {"undefined", "null"} -> FALSE
      [] v.t = "boolean" -> v.v
      [] v.t = "number" -> ~(v.v.cls = "nan" \/ (v.v.cls = "fin" /\ v.v.m = 0))
      [] v.t = "string" -> v.v # <<>>
      [] OTHER -> TRUE

(***************************************************************************)
(* util.inspect(value) with its default options, for values whose          *)
(* rendering fits on one line: strings quoted, arrays as [ a, b ], objects *)
(* as { k: v }, and anything nested deeper than two levels abbreviated.    *)
(***************************************************************************)
IdentStart ==
    {"a", "b", "c", "d", "e", "f", "g", "h", "i", "j", "k", "l", "m",
     "n", "o", "p", "q", "r", "s", "t", "u", "v", "w", "x", "y", "z",
     "A", "B", "C", "D", "E", "F", "G", "H", "I", "J", "K", "L", "M",
     "N", "O", "P", "Q", "R", "S", "T", "U", "V", "W", "X", "Y", "Z",
     "_", "$"}

\* Every occurrence of quote in the first n characters of s preceded by a
\* backslash.
RECURSIVE EscapeQuoteTo(_, _, _)
EscapeQuoteTo(s, quote, n) ==
    IF n = 0 THEN <<>>
    ELSE EscapeQuoteTo(s, quote, n - 1)
            \o (IF s[n] = quote THEN <<"\\", quote>> ELSE <<s[n]>>)

EscapeQuote(s, quote) == EscapeQuoteTo(s, quote, Len(s))

\* A string in quotes, as rendered for a string that holds no single quote
\* (or holds every kind of quote).
QuoteStr(s) == <<"'">> \o EscapeQuote(s, "'") \o <<"'">>

\* A property key: bare when it is an identifier, quoted otherwise.
InspectKey(k) ==
    IF k # <<>> /\ Head(k) \in IdentStart /\ AllIn(Tail(k), IdentStart \cup Digits)
    THEN k
    ELSE QuoteStr(k)

\* The first n parts joined with ", ".
RECURSIVE JoinCommaTo(_, _)
JoinCommaTo(parts, n) ==
    IF n = 0 THEN <<>>
    ELSE IF n = 1 THEN parts[1]
    ELSE JoinCommaTo(parts, n - 1) \o <<",", " ">> \o parts[n]

JoinComma(parts) ==
    CHOOSE text \in {JoinCommaTo(ps, Len(ps)) : ps \in {parts}} : TRUE

RECURSIVE InspectAt(_, _)
InspectAt(v, level) ==
    CASE v.t = "undefined" -> <<"u", "n", "d", "e", "f", "i", "n", "e", "d">>
      [] v.t = "null" -> <<"n", "u", "l", "l">>
      [] v.t = "boolean" ->
            IF v.v THEN <<"t", "r", "u", "e">> ELSE <<"f", "a", "l", "s", "e">>
      [] v.t = "number" -> NumToStr(v.v)
      [] v.t = "string" -> QuoteStr(v.v)
      [] v.t = "date" ->
            IF v.v.cls = "fin" THEN ToISOString(v.v)
            ELSE <<"I", "n", "v", "a", "l", "i", "d", " ", "D", "a", "t", "e">>
      [] v.t = "array" ->
            IF level > 2 THEN <<"[", "A", "r", "r", "a", "y", "]">>
            ELSE IF v.v = <<>> THEN <<"[", "]">>
            ELSE <<"[", " ">>
                    \o JoinComma([i \in 1..Len(v.v) |-> InspectAt(v.v[i], level + 1)])
                    \o <<" ", "]">>
      [] v.t = "object" ->
            IF level > 2 THEN <<"[", "O", "b", "j", "e", "c", "t", "]">>
            ELSE IF v.v = <<>> THEN <<"{", "}">>
            ELSE <<"{", " ">>
                    \o JoinComma([i \in 1..Len(v.v) |->
                            InspectKey(v.v[i][1]) \o <<":", " ">>
                                \o InspectAt(v.v[i][2], level + 1)])
                    \o <<" ", "}">>

Inspect(v) == InspectAt(v, 0)

(***************************************************************************)
(* Outcomes of a call, and error messages.  A message is the sequence of   *)
(* the parts of its template literal: Lit is literal text, Sub is an       *)
(* interpolated string.                                                    *)
(***************************************************************************)
Lit(text) == [lit |-> text]

Sub(chars) == [sub |-> chars]

Ret(v) == [kind |-> "return", value |-> v]

Throw(class, message) == [kind |-> "throw", error |-> class, message |-> message]

\* The outcome of f applied to the value r returned, or the error r raised.
Then(r, f(_)) ==
    CHOOSE out \in {IF x.kind = "throw" THEN x ELSE f(x.value) : x \in {r}} : TRUE

\* `Invalid value for ${ key } in ${ name } (expected T, got: ${ shown })`
InvalidValue(key, name, expected, shown) ==
    Throw("TypeError",
          <<Lit("Invalid value for "), Sub(key), Lit(" in "), Sub(name),
            Lit(" (expected "), Lit(expected), Lit(", got: "), Sub(shown), Lit(")")>>)

(***************************************************************************)
(* The DataPicker class.                                                   *)
(***************************************************************************)
\* An instance: its private fields name and data.
DataPicker(name, data) == [t |-> "accessor", name |-> name, data |-> data]

\* new DataPicker(name, data)
Constructor(name, data) ==
    IF TypeOf(data) # "object"
    THEN Throw("TypeError",
               <<Lit("Invalid data (expected object, got "), Sub(TypeOfStr(data)),
                 Lit(": "), Sub(Inspect(data)), Lit(")")>>)
    ELSE Ret(DataPicker(name, data))

\* The own property keys of an object value.
OwnKeys(data) ==
    CASE data.t = "object" -> {data.v[i][1] : i \in 1..Len(data.v)}
      [] data.t = "array" ->
            {NatToStr(i - 1) : i \in 1..Len(data.v)}
                \cup {<<"l", "e", "n", "g", "t", "h">>}
      [] OTHER -> {}

\* data[key] for an own property key.
Lookup(data, key) ==
    CASE data.t = "object" ->
            data.v[CHOOSE i \in 1..Len(data.v) : data.v[i][1] = key][2]
      [] data.t = "array" ->
            IF key = <<"l", "e", "n", "g", "t", "h">> THEN Num(Fin(Len(data.v), 0))
            ELSE data.v[CHOOSE i \in 1..Len(data.v) : NatToStr(i - 1) = key]

\* has(key): Object.prototype.hasOwnProperty.call(this.data, key), which
\* raises a TypeError of its own when this.data is null.
Has(self, key) ==
    IF self.data.t = "null"
    THEN Throw("TypeError", <<Lit("Cannot convert undefined or null to object")>>)
    ELSE Ret(Bool(key \in OwnKeys(self.data)))

\* get(key, fallback); an omitted fallback is undefined.
Get(self, key, fallback) ==
    LET found(h) ==
            IF h.v THEN Ret(Lookup(self.data, key))
            ELSE IF fallback # Undefined THEN Ret(fallback)
            ELSE Throw("ReferenceError",
                       <<Lit("Missing key "), Sub(key), Lit(" in "), Sub(self.name)>>)
    IN  Then(Has(self, key), found)

\* getString, after the lookup: the check of the value.
AsString(self, key, value) ==
    IF TypeOf(value) # "string"
    THEN InvalidValue(key, self.name, "string", Inspect(value))
    ELSE Ret(value)

GetString(self, key, fallback) ==
    LET check(value) == AsString(self, key, value)
    IN  Then(Get(self, key, fallback), check)

\* A getStringOptional that would also turn a value of the wrong type into
\* undefined; C5 tells it from the code's.
GetStringOptionalLenient(self, key) ==
    LET found(h) ==
            IF ~h.v THEN Ret(Undefined)
            ELSE CHOOSE out \in {IF r.kind = "throw" /\ r.error = "TypeError"
                                 THEN Ret(Undefined) ELSE r
                                    : r \in {GetString(self, key, Undefined)}} : TRUE
    IN  Then(Has(self, key), found)

GetStringOptional(self, key) ==
    LET found(h) == IF ~h.v THEN Ret(Undefined) ELSE GetString(self, key, Undefined)
    IN  Then(Has(self, key), found)

\* A getNumber that would check the type of the parsed value only; C8 tells
\* it from the code's.
AsNumberUnchecked(self, key, value) ==
    LET parsed == IF TypeOf(value) = "string"
                  THEN IF IncludesChar(value.v, ".")
                       THEN Num(ParseFloat(value.v))
                       ELSE Num(ParseInt(value.v))
                  ELSE value
    IN  IF TypeOf(parsed) # "number"
        THEN InvalidValue(key, self.name, "number", Inspect(parsed))
        ELSE Ret(parsed)

\* getNumber, after the lookup: a string is parsed, then the value is checked.
AsNumber(self, key, value) ==
    LET parsed == IF TypeOf(value) = "string"
                  THEN IF IncludesChar(value.v, ".")
                       THEN Num(ParseFloat(value.v))
                       ELSE Num(ParseInt(value.v))
                  ELSE value
    IN  IF TypeOf(parsed) # "number" \/ ~NumIsFinite(parsed.v)
        THEN InvalidValue(key, self.name, "number", Inspect(parsed))
        ELSE Ret(parsed)

GetNumber(self, key, fallback) ==
    LET check(value) == AsNumber(self, key, value)
    IN  Then(Get(self, key, fallback), check)

GetNumberOptional(self, key) ==
    LET found(h) == IF ~h.v THEN Ret(Undefined) ELSE GetNumber(self, key, Undefined)
    IN  Then(Has(self, key), found)

\* getBoolean, after the lookup.
AsBoolean(value) ==
    IF TypeOf(value) = "boolean" THEN Ret(value) ELSE Ret(Bool(Truthy(value)))

GetBoolean(self, key, fallback) == Then(Get(self, key, fallback), AsBoolean)

GetBooleanOptional(self, key) ==
    LET found(h) == IF ~h.v THEN Ret(Undefined) ELSE GetBoolean(self, key, Undefined)
    IN  Then(Has(self, key), found)

\* getDate, after the lookup; engine is the host's answer to Date.parse for a
\* string whose parse is implementation-defined.
AsDate(self, key, value, engine) ==
    LET parsed == DateParse(value.v, engine)
    IN  IF value.t = "date" THEN Ret(value)
        ELSE IF TypeOf(value) = "string" /\ NumIsFinite(parsed) /\ NumPositive(parsed)
        THEN Ret(DateV(TimeClip(parsed)))
        ELSE IF TypeOf(value) = "number" /\ NumIsFinite(value.v) /\ NumPositive(value.v)
        THEN Ret(DateV(TimeClip(value.v)))
        ELSE InvalidValue(key, self.name, "date", Inspect(value))

GetDate(self, key, fallback, engine) ==
    LET check(value) == AsDate(self, key, value, engine)
    IN  Then(Get(self, key, fallback), check)

GetDateOptional(self, key, engine) ==
    LET found(h) == IF ~h.v THEN Ret(Undefined) ELSE GetDate(self, key, Undefined, engine)
    IN  Then(Has(self, key), found)

\* getArray, after the lookup: Array.isArray.
AsArray(self, key, value) ==
    IF value.t # "array"
    THEN InvalidValue(key, self.name, "array", Inspect(value))
    ELSE Ret(value)

GetArray(self, key, fallback) ==
    LET check(value) == AsArray(self, key, value)
    IN  Then(Get(self, key, fallback), check)

\* An element label counted from one; C7 tells it from the code's.
ItemNameFromOne(self, key, i) ==
    self.name \o <<".">> \o key \o <<"[">> \o NatToStr(i + 1) \o <<"]">>

\* `${ this.name }.${ key }[${ i }]`, i counted from zero.
ItemName(self, key, i) ==
    self.name \o <<".">> \o key \o <<"[">> \o NatToStr(i) \o <<"]">>

\* value.map(...) of getObjectArray from the i-th element (counted from one)
\* on: the first element that is not an object ends the map with an error.
RECURSIVE MapItems(_, _, _, _)
MapItems(self, key, value, i) ==
    IF i > Len(value.v) THEN Ret(Arr(<<>>))
    ELSE LET item == value.v[i]
             rest(child) ==
                LET more(tail) == Ret(Arr(<<child>> \o tail.v))
                IN  Then(MapItems(self, key, value, i + 1), more)
         IN  IF TypeOf(item) # "object" \/ item = Null
             THEN InvalidValue(key, self.name, "object", Inspect(value))
             ELSE Then(Constructor(ItemName(self, key, i - 1), item), rest)

GetObjectArray(self, key, fallback) ==
    LET each(value) == MapItems(self, key, value, 1)
    IN  Then(GetArray(self, key, fallback), each)

\* A child label that would keep the parent's; C6 tells it from the code's.
ChildNameOfParent(self, key) == self.name

\* `${ this.name }.${ key }`
ChildName(self, key) == self.name \o <<".">> \o key

\* getObject, after the lookup.
AsObject(self, key, value) ==
    IF TypeOf(value) # "object" \/ value = Null
    THEN InvalidValue(key, self.name, "object", Inspect(value))
    ELSE Constructor(ChildName(self, key), value)

GetObject(self, key, fallback) ==
    LET check(value) == AsObject(self, key, value)
    IN  Then(Get(self, key, fallback), check)

\* getRawObject, after the lookup.
AsRawObject(self, key, value) ==
    IF TypeOf(value) # "object" \/ value = Null
    THEN InvalidValue(key, self.name, "object", Inspect(value))
    ELSE Ret(value)

GetRawObject(self, key, fallback) ==
    LET check(value) == AsRawObject(self, key, value)
    IN  Then(Get(self, key, fallback), check)

\* raw()
Raw(self) == Ret(self.data)

(***************************************************************************)
(* The values the callers of the model pass in.                            *)
(***************************************************************************)
KeyK == <<"k">>

KeyX == <<"x">>

Keys == {KeyK, KeyX}

RootName == <<"r", "o", "o", "t">>

Strings ==
    { <<>>,
      <<"x">>,
      <<"5">>,
      <<"4", "2">>,
      <<"3", ".", "1", "4">>,
      <<"a", "b", "c">>,
      <<"I", "n", "f", "i", "n", "i", "t", "y", ".">>,
      <<"n", "o", "t", "-", "a", "-", "d", "a", "t", "e">>,
      <<"1", "9", "7", "0", "-", "0", "1", "-", "0", "1">>,
      <<"1", "9", "7", "0", "-", "0", "1", "-", "0", "1",
        "T", "0", "0", ":", "0", "0", ":", "0", "1", "Z">> }

Numbers ==
    {Fin(0, 0), Fin(1000, 0), Fin(-5, 0), Fin(5, 1), Fin(42, 0), NaN, Infinity}

Primitives ==
    {Undefined, Null, Bool(TRUE), Bool(FALSE)}
        \cup {Num(n) : n \in Numbers}
        \cup {Str(s) : s \in Strings}
        \cup {DateV(Fin(1000, 0)), DateV(NaN)}

\* { x: 1 }
Leaf == Obj(<< <<KeyX, Num(Fin(1, 0))>> >>)

\* { k: { x: 1 }, x: [ { x: 1 }, { x: 1 } ] }
Nested == Obj(<< <<KeyK, Leaf>>, <<KeyX, Arr(<<Leaf, Leaf>>)>> >>)

Elements == {Leaf, Null, Str(<<"b", "a", "d">>)}

Arrays == {Arr(items) : items \in UNION {[1..n -> Elements] : n \in 0..MaxLen}}

PropValues == Primitives \cup Arrays \cup {Obj(<<>>), Leaf, Nested}

\* What a caller hands to the constructor: objects with zero, one or two
\* properties, and values that are no key-value object.
Sources ==
    {Obj(<< <<KeyK, v>> >>) : v \in PropValues}
        \cup {Obj(<<>>), Obj(<< <<KeyX, Str(<<"x">>)>>, <<KeyK, Num(Fin(0, 0))>> >>)}
        \cup {Null, Undefined, Num(Fin(42, 0)), Str(<<"x">>), Bool(TRUE),
              Arr(<<Leaf>>), DateV(Fin(1000, 0))}

\* The fallback argument; Undefined is the omitted argument.
Fallbacks ==
    {Undefined, Null, Bool(FALSE), Str(<<"5">>), Num(Fin(1000, 0)), Leaf,
     Arr(<<Leaf>>), Arr(<<Leaf, Str(<<"b", "a", "d">>)>>)}

\* What the host's Date.parse may answer for a string whose parse is
\* implementation-defined.
Engines == {NaN, Fin(5000, 0)}

(***************************************************************************)
(* The state: the accessor the last call was made on, that call, its       *)
(* outcome, and the host's date parser.  trail records the steps (key and  *)
(* index, -1 for none) by which self was reached from the root accessor.   *)
(***************************************************************************)
VARIABLES self, call, result, engine, trail

vars == <<self, call, result, engine, trail>>

NoAccessor == [t |-> "none"]

\* The accessors a returned value holds.
AccessorsIn(v) ==
    CASE v.t = "accessor" -> {v}
      [] v.t = "array" -> {v.v[i] : i \in {j \in 1..Len(v.v) : v.v[j].t = "accessor"}}
      [] OTHER -> {}

\* The accessors that exist: the one in hand and those just returned.
Accessors ==
    (IF self = NoAccessor THEN {} ELSE {self})
        \cup (IF result.kind = "return" THEN AccessorsIn(result.value) ELSE {})

\* The child accessors the last call returned, each with the steps that
\* lead to it.
Children ==
    (IF call.op = "getObject" /\ result.kind = "return"
     THEN {[acc |-> result.value,
            trail |-> Append(trail, [key |-> call.key, index |-> -1])]}
     ELSE {})
        \cup (IF call.op = "getObjectArray" /\ result.kind = "return"
              THEN {[acc |-> result.value.v[i],
                     trail |-> Append(trail, [key |-> call.key, index |-> i - 1])] :
                        i \in 1..Len(result.value.v)}
              ELSE {})

\* The caller holds an accessor and no call is being looked at.
Idle == self # NoAccessor /\ call.op = "none"

Init ==
    /\ self = NoAccessor
    /\ call = [op |-> "none"]
    /\ result = [kind |-> "none"]
    /\ engine \in Engines
    /\ trail = <<>>

\* new DataPicker(name, data) by the caller.
New ==
    /\ self = NoAccessor
    /\ \E data \in Sources :
         LET out == Constructor(RootName, data)
         IN  /\ self' = IF out.kind = "return" THEN out.value ELSE self
             /\ call' = [op |-> "new", name |-> RootName, data |-> data]
             /\ result' = out
    /\ UNCHANGED <<engine, trail>>

\* The caller is done with the outcome of the last call.
Discard ==
    /\ self # NoAccessor
    /\ call.op # "none"
    /\ call' = [op |-> "none"]
    /\ result' = [kind |-> "none"]
    /\ UNCHANGED <<self, engine, trail>>

\* The caller goes on with a child accessor the last call returned.
Enter ==
    /\ Len(trail) < MaxDepth
    /\ \E child \in Children :
         /\ self' = child.acc
         /\ trail' = child.trail
    /\ call' = [op |-> "none"]
    /\ result' = [kind |-> "none"]
    /\ UNCHANGED engine

\* A call of method op on the accessor in hand, with outcome out.
Invoke(op, key, fallback, out) ==
    /\ Idle
    /\ call' = [op |-> op, key |-> key, fallback |-> fallback]
    /\ result' = out
    /\ UNCHANGED <<self, engine, trail>>

CallHas ==
    \E key \in Keys :
        Invoke("has", key, Undefined, Has(self, key))

CallGet ==
    \E key \in Keys, fb \in Fallbacks :
        Invoke("get", key, fb, Get(self, key, fb))

CallGetString ==
    \E key \in Keys, fb \in Fallbacks :
        Invoke("getString", key, fb, GetString(self, key, fb))

CallGetStringOptional ==
    \E key \in Keys :
        Invoke("getStringOptional", key, Undefined, GetStringOptional(self, key))

CallGetNumber ==
    \E key \in Keys, fb \in Fallbacks :
        Invoke("getNumber", key, fb, GetNumber(self, key, fb))

CallGetNumberOptional ==
    \E key \in Keys :
        Invoke("getNumberOptional", key, Undefined, GetNumberOptional(self, key))

CallGetBoolean ==
    \E key \in Keys, fb \in Fallbacks :
        Invoke("getBoolean", key, fb, GetBoolean(self, key, fb))

CallGetBooleanOptional ==
    \E key \in Keys :
        Invoke("getBooleanOptional", key, Undefined, GetBooleanOptional(self, key))

CallGetDate ==
    \E key \in Keys, fb \in Fallbacks :
        Invoke("getDate", key, fb, GetDate(self, key, fb, engine))

CallGetDateOptional ==
    \E key \in Keys :
        Invoke("getDateOptional", key, Undefined,
               GetDateOptional(self, key, engine))

CallGetArray ==
    \E key \in Keys, fb \in Fallbacks :
        Invoke("getArray", key, fb, GetArray(self, key, fb))

CallGetObjectArray ==
    \E key \in Keys, fb \in Fallbacks :
        Invoke("getObjectArray", key, fb, GetObjectArray(self, key, fb))

CallGetObject ==
    \E key \in Keys, fb \in Fallbacks :
        Invoke("getObject", key, fb, GetObject(self, key, fb))

CallGetRawObject ==
    \E key \in Keys, fb \in Fallbacks :
        Invoke("getRawObject", key, fb, GetRawObject(self, key, fb))

CallRaw ==
    Invoke("raw", <<>>, Undefined, Raw(self))

Next ==
    \/ New
    \/ Discard
    \/ Enter
    \/ CallHas
    \/ CallGet
    \/ CallGetString
    \/ CallGetStringOptional
    \/ CallGetNumber
    \/ CallGetNumberOptional
    \/ CallGetBoolean
    \/ CallGetBooleanOptional
    \/ CallGetDate
    \/ CallGetDateOptional
    \/ CallGetArray
    \/ CallGetObjectArray
    \/ CallGetObject
    \/ CallGetRawObject
    \/ CallRaw

Spec == Init /\ [][Next]_vars

(***************************************************************************)
(* Vocabulary of the properties.                                           *)
(***************************************************************************)
\* The getters that take a fallback.
FallbackOps ==
    {"get", "getString", "getNumber", "getBoolean", "getDate", "getArray",
     "getObjectArray", "getObject", "getRawObject"}

TypedOps == FallbackOps \ {"get"}

OptionalOps ==
    {"getStringOptional", "getNumberOptional", "getBooleanOptional", "getDateOptional"}

GetterOps == FallbackOps \cup OptionalOps

\* A non-null structured value.
IsStructured(v) == v.t \in {"object", "array", "date"}

\* The parts of the message of a raised error.
Parts(out) == {out.message[i] : i \in 1..Len(out.message)}

IsMissingKey(out) == out.kind = "throw" /\ out.error = "ReferenceError"

IsTypeMismatch(out) == out.kind = "throw" /\ out.error = "TypeError"

\* What getter op does with the value its lookup resolved.
After(op, acc, key, value) ==
    CASE op = "get" -> Ret(value)
      [] op = "getString" -> AsString(acc, key, value)
      [] op = "getNumber" -> AsNumber(acc, key, value)
      [] op = "getBoolean" -> AsBoolean(value)
      [] op = "getDate" -> AsDate(acc, key, value, engine)
      [] op = "getArray" -> AsArray(acc, key, value)
      [] op = "getObjectArray" ->
            LET each(a) == MapItems(acc, key, a, 1)
            IN  Then(AsArray(acc, key, value), each)
      [] op = "getObject" -> AsObject(acc, key, value)
      [] op = "getRawObject" -> AsRawObject(acc, key, value)

\* Getter op called on acc.
Apply(op, acc, key, fallback) ==
    CASE op = "get" -> Get(acc, key, fallback)
      [] op = "getString" -> GetString(acc, key, fallback)
      [] op = "getNumber" -> GetNumber(acc, key, fallback)
      [] op = "getBoolean" -> GetBoolean(acc, key, fallback)
      [] op = "getDate" -> GetDate(acc, key, fallback, engine)
      [] op = "getArray" -> GetArray(acc, key, fallback)
      [] op = "getObjectArray" -> GetObjectArray(acc, key, fallback)
      [] op = "getObject" -> GetObject(acc, key, fallback)
      [] op = "getRawObject" -> GetRawObject(acc, key, fallback)

\* The lookup of the last call, when that call was a getter with a fallback.
Resolved == Get(self, call.key, call.fallback)

(***************************************************************************)
(* C1.  Presence wins over the fallback: a getter uses the raw value of a  *)
(* key that is an own property of the source, whatever that value is;      *)
(* for any other key it uses the fallback when one was supplied, and       *)
(* otherwise fails with a missing-key error and nothing else.              *)
(***************************************************************************)
C1_PresenceOverFallback ==
    call.op \in FallbackOps =>
        IF call.key \in OwnKeys(self.data)
        THEN result = After(call.op, self, call.key, Lookup(self.data, call.key))
        ELSE IF call.fallback # Undefined
        THEN result = After(call.op, self, call.key, call.fallback)
        ELSE IsMissingKey(result)

\* The same over every accessor whose source is not null.
C1_OverNonNull ==
    (self # NoAccessor /\ self.data.t # "null") => C1_PresenceOverFallback

(***************************************************************************)
(* C2.  A supplied fallback for an absent key goes through the getter's    *)
(* own coercion and validation: the outcome is that of the same getter,    *)
(* without fallback, on a source that holds the fallback at that key.      *)
(***************************************************************************)
\* A source in which key is present with the given value.
WithProperty(data, key, value) ==
    IF data.t = "object" THEN Obj(Append(data.v, <<key, value>>))
    ELSE Obj(<< <<key, value>> >>)

C2_FallbackIsCoerced ==
    (/\ call.op \in TypedOps
     /\ call.key \notin OwnKeys(self.data)
     /\ call.fallback # Undefined)
        => result = Apply(call.op,
                          DataPicker(self.name,
                                     WithProperty(self.data, call.key, call.fallback)),
                          call.key, Undefined)

\* The same over every accessor whose source is not null.
C2_OverNonNull ==
    (self # NoAccessor /\ self.data.t # "null") => C2_FallbackIsCoerced

(***************************************************************************)
(* C3.  Every type-mismatch error a getter raises names the key, the       *)
(* accessor's label, the expected type and a rendering of the offending    *)
(* value (for getObjectArray, the element that is not an object), and      *)
(* every missing-key error names the key and the label.                    *)
(***************************************************************************)
\* The type name the message of getter op is to state for the value.
ExpectedType(op, value) ==
    CASE op \in {"getString", "getStringOptional"} -> "string"
      [] op \in {"getNumber", "getNumberOptional"} -> "number"
      [] op \in {"getDate", "getDateOptional"} -> "date"
      [] op = "getArray" -> "array"
      [] op = "getObjectArray" -> IF value.t = "array" THEN "object" ELSE "array"
      [] op \in {"getObject", "getRawObject"} -> "object"

\* The value getter op found wrong, out of the value its lookup resolved.
Offending(op, value) ==
    IF op = "getObjectArray" /\ value.t = "array"
    THEN value.v[CHOOSE i \in 1..Len(value.v) :
                    /\ ~IsStructured(value.v[i])
                    /\ \A j \in 1..(i - 1) : IsStructured(value.v[j])]
    ELSE value

C3_ErrorMessages ==
    (/\ call.op \in GetterOps
     /\ self.data.t # "null"
     /\ result.kind = "throw")
        => /\ Sub(call.key) \in Parts(result)
           /\ Sub(self.name) \in Parts(result)
           /\ IsTypeMismatch(result) =>
                /\ Lit(ExpectedType(call.op, Resolved.value)) \in Parts(result)
                /\ Sub(Inspect(Offending(call.op, Resolved.value))) \in Parts(result)

\* What the messages do carry: the key and the label always; in a
\* type-mismatch error also the expected type and some rendering.
C3_KeyAndLabel ==
    (/\ call.op \in GetterOps
     /\ self.data.t # "null"
     /\ result.kind = "throw")
        => /\ Sub(call.key) \in Parts(result)
           /\ Sub(self.name) \in Parts(result)
           /\ IsTypeMismatch(result) =>
                Lit(ExpectedType(call.op, Resolved.value)) \in Parts(result)

(***************************************************************************)
(* C4.  Construction over a primitive or over null fails and leaves no     *)
(* accessor, so that every accessor that exists, made by the caller or by  *)
(* getObject / getObjectArray, wraps a non-null structured value.          *)
(***************************************************************************)
C4_SourceIsStructured ==
    /\ \A a \in Accessors : IsStructured(a.data)
    /\ (call.op = "new" /\ ~IsStructured(call.data))
            => (IsTypeMismatch(result) /\ self = NoAccessor)

\* The same for the accessors that getObject and getObjectArray make.
C4_ChildrenAreStructured == \A c \in Children : IsStructured(c.acc.data)

(***************************************************************************)
(* C5.  An optional getter returns undefined exactly when has(key) is      *)
(* false and never raises a missing-key error; when has(key) is true its   *)
(* outcome is that of the plain getter without fallback, type-mismatch     *)
(* errors included.                                                        *)
(***************************************************************************)
\* The plain getter of an optional one.
PlainOf(op) ==
    CASE op = "getStringOptional" -> "getString"
      [] op = "getNumberOptional" -> "getNumber"
      [] op = "getBooleanOptional" -> "getBoolean"
      [] op = "getDateOptional" -> "getDate"

C5_OptionalIsAbsenceTolerant ==
    call.op \in OptionalOps =>
        /\ (result = Ret(Undefined)) <=> (Has(self, call.key) = Ret(Bool(FALSE)))
        /\ ~IsMissingKey(result)
        /\ Has(self, call.key) = Ret(Bool(TRUE))
                => result = Apply(PlainOf(call.op), self, call.key, Undefined)

\* An optional getter raised the type-mismatch error of a present value.
C5_Witness ==
    /\ call.op = "getStringOptional"
    /\ Has(self, call.key) = Ret(Bool(TRUE))
    /\ IsTypeMismatch(result)

(***************************************************************************)
(* C6.  getObject on a key that resolves to a non-null structured value    *)
(* returns a child whose label is the parent's label, a dot and the key,   *)
(* and whose source is that value; along any chain of getObject and        *)
(* getObjectArray steps the errors raised on a child name the child's own  *)
(* label and not its parent's.                                             *)
(***************************************************************************)
\* The label that the first n steps of the trail spell out from the root.
RECURSIVE LabelTo(_)
LabelTo(n) ==
    IF n = 0 THEN RootName
    ELSE LabelTo(n - 1) \o <<".">> \o trail[n].key
            \o (IF trail[n].index < 0 THEN <<>>
                ELSE <<"[">> \o NatToStr(trail[n].index) \o <<"]">>)

C6_NestedLabels ==
    /\ (call.op = "getObject" /\ Resolved.kind = "return" /\ IsStructured(Resolved.value))
            => result = Ret(DataPicker(self.name \o <<".">> \o call.key, Resolved.value))
    /\ self # NoAccessor => self.name = LabelTo(Len(trail))
    /\ (call.op \in GetterOps /\ Len(trail) > 0 /\ result.kind = "throw")
            => /\ Sub(LabelTo(Len(trail))) \in Parts(result)
               /\ Sub(LabelTo(Len(trail) - 1)) \notin Parts(result)

\* A getter failed on a child reached by two steps.
C6_Witness ==
    /\ Len(trail) = 2
    /\ trail[1].index < 0
    /\ call.op \in GetterOps
    /\ result.kind = "throw"

(***************************************************************************)
(* C7.  getObjectArray on a key that resolves to an array fails with a     *)
(* type-mismatch error naming the key and the accessor's own label when    *)
(* some element is not a non-null structured value; otherwise it returns   *)
(* one child per element, in order, the i-th (from zero) wrapping the i-th *)
(* element under the label  label.key[i].                                  *)
(***************************************************************************)
C7_ObjectArray ==
    (call.op = "getObjectArray" /\ Resolved.kind = "return" /\ Resolved.value.t = "array")
        => LET items == Resolved.value.v
           IN  IF \E i \in 1..Len(items) : ~IsStructured(items[i])
               THEN /\ IsTypeMismatch(result)
                    /\ Sub(call.key) \in Parts(result)
                    /\ Sub(self.name) \in Parts(result)
                    /\ \A i \in 1..Len(items) :
                          Sub(self.name \o <<".">> \o call.key
                                \o <<"[">> \o NatToStr(i - 1) \o <<"]">>)
                              \notin Parts(result)
               ELSE /\ result.kind = "return"
                    /\ result.value.t = "array"
                    /\ Len(result.value.v) = Len(items)
                    /\ \A i \in 1..Len(items) :
                          result.value.v[i] =
                              DataPicker(self.name \o <<".">> \o call.key
                                            \o <<"[">> \o NatToStr(i - 1) \o <<"]">>,
                                         items[i])

\* getObjectArray returned two children.
C7_Witness ==
    /\ call.op = "getObjectArray"
    /\ result.kind = "return"
    /\ Len(result.value.v) = 2

(***************************************************************************)
(* C8.  getNumber returns finite numbers only: a string is parsed, as a    *)
(* float when it holds a decimal point and as an integer otherwise, and    *)
(* whatever is then not a finite number is a type-mismatch error;          *)
(* "3.14" gives 3.14, "42" gives 42 and "abc" fails.                       *)
(***************************************************************************)
C8_NumberIsFinite ==
    (call.op = "getNumber" /\ Resolved.kind = "return")
        => LET value == Resolved.value
               parsed == IF value.t # "string" THEN value
                         ELSE IF \E i \in 1..Len(value.v) : value.v[i] = "."
                              THEN Num(ParseFloat(value.v))
                              ELSE Num(ParseInt(value.v))
           IN  /\ result.kind = "return"
                    => (result.value.t = "number" /\ result.value.v.cls = "fin")
               /\ IF parsed.t = "number" /\ parsed.v.cls = "fin"
                  THEN result = Ret(parsed)
                  ELSE IsTypeMismatch(result)
               /\ value = Str(<<"3", ".", "1", "4">>) => result = Ret(Num(Fin(314, 2)))
               /\ value = Str(<<"4", "2">>) => result = Ret(Num(Fin(42, 0)))
               /\ value = Str(<<"a", "b", "c">>) => IsTypeMismatch(result)
               /\ value \in {Num(NaN), Num(Infinity), Null, Undefined, Bool(TRUE), Leaf}
                    => IsTypeMismatch(result)

\* getNumber parsed the string "3.14".
C8_Witness ==
    /\ call.op = "getNumber"
    /\ Resolved = Ret(Str(<<"3", ".", "1", "4">>))
    /\ result.kind = "return"

(***************************************************************************)
(* C9.  getDate applies its rules in order to the resolved value: a date   *)
(* is returned unchanged; a string is accepted exactly when it parses to a *)
(* finite, strictly positive timestamp; a number is accepted exactly when  *)
(* it is finite and strictly positive and is then returned as the date     *)
(* with that epoch timestamp; every other value is a type-mismatch error.  *)
(* 0 and negative numbers fail, 1000 gives the date one second after the   *)
(* epoch and "not-a-date" fails.                                           *)
(***************************************************************************)
\* The rules of getDate, the date of an accepted timestamp n being the one
\* with time value stamp(n).
DateRules(stamp(_)) ==
    (call.op = "getDate" /\ Resolved.kind = "return")
        => LET value == Resolved.value
           IN  /\ value.t = "date" => result = Ret(value)
               /\ value.t = "string"
                    => LET parsed == DateParse(value.v, engine)
                       IN  IF parsed.cls = "fin" /\ parsed.m > 0
                           THEN result = Ret(DateV(stamp(parsed)))
                           ELSE IsTypeMismatch(result)
               /\ value.t = "number"
                    => IF value.v.cls = "fin" /\ value.v.m > 0
                       THEN result = Ret(DateV(stamp(value.v)))
                       ELSE IsTypeMismatch(result)
               /\ value.t \notin {"date", "string", "number"} => IsTypeMismatch(result)
               /\ value \in {Num(Fin(0, 0)), Num(Fin(-5, 0))} => IsTypeMismatch(result)
               /\ value = Num(Fin(1000, 0)) => result = Ret(DateV(Fin(1000, 0)))
               /\ value = Str(<<"n", "o", "t", "-", "a", "-", "d", "a", "t", "e">>)
                    => IsTypeMismatch(result)

SameStamp(n) == n

C9_DateRules == DateRules(SameStamp)

\* What the code does keep: the rules with the timestamp cut to whole
\* milliseconds, so that 0.5 gives the date of the epoch itself.
C9_UpToWholeMilliseconds == DateRules(TimeClip)

(***************************************************************************)
(* C10.  getBoolean never fails with a type-mismatch error: for a key      *)
(* present in the source it returns a boolean, the value itself when that  *)
(* is a boolean and its truthiness otherwise (empty string, 0, null,       *)
(* undefined and NaN are false, everything else true); its only failure is *)
(* the missing-key error of an absent key without fallback.                *)
(***************************************************************************)
Falsy == {Str(<<>>), Num(Fin(0, 0)), Null, Undefined, Num(NaN), Bool(FALSE)}

BooleanRules ==
    call.op = "getBoolean" =>
        /\ ~IsTypeMismatch(result)
        /\ Has(self, call.key) = Ret(Bool(TRUE))
                => result = Ret(Bool(Lookup(self.data, call.key) \notin Falsy))
        /\ result.kind = "return" => result.value.t = "boolean"
        /\ result.kind = "throw"
                => /\ IsMissingKey(result)
                   /\ Has(self, call.key) = Ret(Bool(FALSE))
                   /\ call.fallback = Undefined

C10_BooleanNeverMismatches == BooleanRules

\* The same on the accessors whose source is not null.
C10_OverNonNull == (self # NoAccessor /\ self.data # Null) => BooleanRules

=============================================================================
